---- MODULE Spec2Model ----
(***************************************************************************)
(* Model of Assignment2/graph_algorithms.cpp: is_empty, is_connected,      *)
(* connected_components, min_distance, dijkstras and articulation_points   *)
(* over an undirected weighted graph.  The container weighted_graph.hpp    *)
(* and depth_first (easy_weighted_graph_algorithms.cpp) are included by    *)
(* the file but are not part of it; they are modelled from their           *)
(* documented contract.                                                    *)
(***************************************************************************)
EXTENDS Integers, Sequences, FiniteSets, TLC

\* Bounds of the model.
MaxV == 3
MaxWeight == 1

\* std::numeric_limits<int>::max()
IntMax == 2147483647

\* The value of a vertex variable that was declared but never assigned.
NoVertex == 0

Universe == 1..MaxV
Weights == (0..MaxWeight) \cup {IntMax}

Range(s) == {s[i] : i \in 1..Len(s)}

(***************************************************************************)
(* weighted_graph<vertex>: order is the native enumeration (cbegin..cend), *)
(* wt maps each ordered pair of adjacent vertices to the edge weight and   *)
(* is symmetric.                                                           *)
(***************************************************************************)
EmptyGraph == [order |-> <<>>, wt |-> [e \in {} |-> 0]]

num_vertices(G) == Len(G.order)

Vertices(G) == Range(G.order)

has_vertex(G, v) == v \in Vertices(G)

are_adjacent(G, a, b) == <<a, b>> \in DOMAIN G.wt

get_edge_weight(G, a, b) == G.wt[<<a, b>>]

neighbours(G, v) == {n \in Vertices(G) : are_adjacent(G, v, n)}

add_vertex(G, v) ==
    IF has_vertex(G, v) THEN G ELSE [order |-> Append(G.order, v), wt |-> G.wt]

add_edge(G, a, b, w) ==
    IF has_vertex(G, a) /\ has_vertex(G, b)
    THEN [order |-> G.order,
          wt |-> [e \in DOMAIN G.wt \cup {<<a, b>>, <<b, a>>} |->
                    IF e \in {<<a, b>>, <<b, a>>} THEN w ELSE G.wt[e]]]
    ELSE G

remove_vertex(G, v) ==
    [order |-> SelectSeq(G.order, LAMBDA x : x # v),
     wt |-> [e \in {d \in DOMAIN G.wt : d[1] # v /\ d[2] # v} |-> G.wt[e]]]

\* depth_first(g, start): the vertices reachable from start, start included.
RECURSIVE Reach(_, _)
Reach(G, S) ==
    LET N == S \cup {n \in Vertices(G) : \E v \in S : are_adjacent(G, v, n)}
    IN  IF N = S THEN S ELSE Reach(G, N)

depth_first(G, start) == Reach(G, {start})

(***************************************************************************)
(* graph_algorithms.cpp                                                    *)
(***************************************************************************)
is_empty(G) == num_vertices(G) = 0

\* A variant that dereferences cbegin() without testing for emptiness.
is_connected_unguarded(G) ==
    IF num_vertices(G) = 0
    THEN FALSE
    ELSE Cardinality(depth_first(G, G.order[1])) = num_vertices(G)

is_connected(G) ==
    is_empty(G) \/ Cardinality(depth_first(G, G.order[1])) = num_vertices(G)

\* components.back().add_vertex(v) for each v of vertices (lines 50-53).
RECURSIVE add_vertices(_, _)
add_vertices(C, vs) ==
    IF vs = <<>> THEN C ELSE add_vertices(add_vertex(C, Head(vs)), Tail(vs))

\* components.back().add_edge(v, n, w) for each pair of P (line 57).
RECURSIVE add_edges(_, _, _)
add_edges(C, G, P) ==
    IF P = {} THEN C
    ELSE LET p == CHOOSE q \in P : TRUE
         IN  add_edges(add_edge(C, p[1], p[2], get_edge_weight(G, p[1], p[2])),
                       G, P \ {p})

\* A variant that rebuilds the edges of one vertex of the component only.
rebuild_edges_first_only(C, G, vertices) ==
    LET f == CHOOSE x \in vertices : \A y \in vertices : x <= y
    IN  add_edges(C, G, {<<f, n>> : n \in neighbours(G, f)})

\* Lines 55-59: rebuild the edges of every vertex of the component.
rebuild_edges(C, G, vertices) ==
    add_edges(C, G, {p \in vertices \X Vertices(G) : are_adjacent(G, p[1], p[2])})

\* A variant that marks only the seed vertex as visited.
cc_body_seed_only(G, comps, vis, v) ==
    IF v \in vis
    THEN [components |-> comps, visited |-> vis]
    ELSE LET vertices == depth_first(G, v)
             C == add_vertices(EmptyGraph, SelectSeq(G.order, LAMBDA x : x \in vertices))
         IN  [components |-> Append(comps, rebuild_edges(C, G, vertices)),
              visited |-> vis \cup {v}]

\* Lines 42-60: one iteration of the loop of connected_components.
cc_body(G, comps, vis, v) ==
    IF v \in vis
    THEN [components |-> comps, visited |-> vis]
    ELSE LET vertices == depth_first(G, v)
             C == add_vertices(EmptyGraph, SelectSeq(G.order, LAMBDA x : x \in vertices))
         IN  [components |-> Append(comps, rebuild_edges(C, G, vertices)),
              visited |-> vis \cup vertices]

\* A variant of the scan that compares with < instead of <=.
RECURSIVE min_scan_strict(_, _, _, _, _, _)
min_scan_strict(G, d, spt, i, min, min_vertex) ==
    IF i > Len(G.order) THEN min_vertex
    ELSE LET v == G.order[i]
         IN  IF v \notin spt /\ d[v] < min
             THEN min_scan_strict(G, d, spt, i + 1, d[v], v)
             ELSE min_scan_strict(G, d, spt, i + 1, min, min_vertex)

min_distance_strict(G, d, spt) == min_scan_strict(G, d, spt, 1, IntMax, NoVertex)

\* Lines 72-80: the linear scan of min_distance from position i on.
RECURSIVE min_scan(_, _, _, _, _, _)
min_scan(G, d, spt, i, min, min_vertex) ==
    IF i > Len(G.order) THEN min_vertex
    ELSE LET v == G.order[i]
         IN  IF v \notin spt /\ d[v] <= min
             THEN min_scan(G, d, spt, i + 1, d[v], v)
             ELSE min_scan(G, d, spt, i + 1, min, min_vertex)

min_distance(G, d, spt) == min_scan(G, d, spt, 1, IntMax, NoVertex)

\* A variant that seeds the source without testing for emptiness.
init_dist_unguarded(G, s) ==
    [x \in Vertices(G) \cup {s} |-> IF x = s THEN 0 ELSE IntMax]

\* Lines 92-98: every vertex at infinity, then the source at 0.
init_dist(G, s) ==
    IF ~is_empty(G)
    THEN [x \in Vertices(G) \cup {s} |-> IF x = s THEN 0 ELSE IntMax]
    ELSE [x \in Vertices(G) |-> IntMax]

\* a + b in int with b >= 0: the sum leaves the range of int iff a > IntMax - b.
overflows(a, b) == a > IntMax - b

\* The two's complement result of a + b (a + b - 2^32 when the sum overflows).
int_add(a, b) ==
    IF overflows(a, b) THEN ((a - IntMax) - 1) + ((b - IntMax) - 1) ELSE a + b

\* The operands of line 113 are evaluated for v: the first three tests passed.
reaches_sum(G, d, spt, w, v) ==
    v \notin spt /\ are_adjacent(G, w, v) /\ d[w] # IntMax

\* Lines 106-117: the relaxation of every vertex adjacent to w.
relax(G, d, spt, w) ==
    [v \in DOMAIN d |->
        IF /\ v \in Vertices(G)
           /\ reaches_sum(G, d, spt, w, v)
           /\ int_add(d[w], get_edge_weight(G, w, v)) < d[v]
        THEN int_add(d[w], get_edge_weight(G, w, v))
        ELSE d[v]]

\* The test graph aliases the caller's graph instead of copying it.
ap_reset_remove_alias(G, v) ==
    [g |-> remove_vertex(G, v), test_graph |-> remove_vertex(G, v)]

\* Lines 131-134: test_graph = g; test_graph.remove_vertex(v).
ap_reset_remove(G, v) ==
    [g |-> G, test_graph |-> remove_vertex(G, v)]

(***************************************************************************)
(* The state: the caller's graph and the locals of the call in progress.   *)
(***************************************************************************)
VARIABLES g, pc, src, dist, spt_set, u, g_it, visited, components,
          articulation, test_graph, ret

vars == <<g, pc, src, dist, spt_set, u, g_it, visited, components,
          articulation, test_graph, ret>>

locals == <<src, dist, spt_set, u, g_it, visited, components,
            articulation, test_graph, ret>>

\* The native enumeration of the input graph: the contract of the container
\* fixes no order, so the vertices 1..n are enumerated in ascending or in
\* descending order (any enumeration is the ascending one up to a renaming
\* of the vertices; the descending one keeps position and value apart).
Orders(n) == {[i \in 1..n |-> i], [i \in 1..n |-> n + 1 - i]}

Pairs(n) == {p \in (1..n) \X (1..n) : p[1] < p[2]}

\* The graph with vertices in order o and weight f on the undirected pairs E.
MakeGraph(o, E, f) ==
    [order |-> o,
     wt |-> [e \in E \cup {<<p[2], p[1]>> : p \in E} |->
                IF e \in E THEN f[e] ELSE f[<<e[2], e[1]>>]]]

NoLocals ==
    /\ src = NoVertex
    /\ dist = <<>>
    /\ spt_set = {}
    /\ u = NoVertex
    /\ g_it = 1
    /\ visited = {}
    /\ components = <<>>
    /\ articulation = <<>>
    /\ test_graph = EmptyGraph
    /\ ret = FALSE

Init ==
    /\ \E n \in 0..MaxV : \E o \in Orders(n) : \E E \in SUBSET Pairs(n) :
         \E f \in [E -> Weights] : g = MakeGraph(o, E, f)
    /\ pc = "idle"
    /\ NoLocals

\* bool is_empty(g)
IsEmpty ==
    /\ pc = "idle"
    /\ ret' = is_empty(g)
    /\ pc' = "is_empty_done"
    /\ UNCHANGED <<g, src, dist, spt_set, u, g_it, visited, components,
                   articulation, test_graph>>

\* bool is_connected(g)
IsConnected ==
    /\ pc = "idle"
    /\ ret' = is_connected(g)
    /\ pc' = "is_connected_done"
    /\ UNCHANGED <<g, src, dist, spt_set, u, g_it, visited, components,
                   articulation, test_graph>>

\* connected_components(g): lines 38-39.
CCStart ==
    /\ pc = "idle"
    /\ components' = <<>>
    /\ visited' = {}
    /\ g_it' = 1
    /\ pc' = "cc_loop"
    /\ UNCHANGED <<g, src, dist, spt_set, u, articulation, test_graph, ret>>

\* connected_components(g): one iteration of the loop of line 41.
CCIter ==
    /\ pc = "cc_loop"
    /\ g_it <= num_vertices(g)
    /\ LET r == cc_body(g, components, visited, g.order[g_it])
       IN  /\ components' = r.components
           /\ visited' = r.visited
    /\ g_it' = g_it + 1
    /\ UNCHANGED <<g, pc, src, dist, spt_set, u, articulation, test_graph, ret>>

\* connected_components(g): line 62.
CCDone ==
    /\ pc = "cc_loop"
    /\ g_it > num_vertices(g)
    /\ pc' = "cc_done"
    /\ UNCHANGED <<g, locals>>

\* dijkstras(g, s): lines 88-98.  A source outside a non-empty graph is a
\* breach of the precondition and is not called.
DijkstraStart ==
    /\ pc = "idle"
    /\ \E s \in Universe :
         /\ is_empty(g) \/ has_vertex(g, s)
         /\ src' = s
         /\ dist' = init_dist(g, s)
    /\ spt_set' = {}
    /\ g_it' = 1
    /\ pc' = "dijkstra_select"
    /\ UNCHANGED <<g, u, visited, components, articulation, test_graph, ret>>

\* dijkstras: lines 100-104, the selection of the next vertex.
DijkstraSelect ==
    /\ pc = "dijkstra_select"
    /\ g_it <= num_vertices(g)
    /\ u' = min_distance(g, dist, spt_set)
    /\ spt_set' = spt_set \cup {u'}
    /\ pc' = "dijkstra_relax"
    /\ UNCHANGED <<g, src, dist, g_it, visited, components, articulation,
                   test_graph, ret>>

\* dijkstras: lines 106-117, with every overflowing sum wrapping around.
DijkstraRelax ==
    /\ pc = "dijkstra_relax"
    /\ dist' = relax(g, dist, spt_set, u)
    /\ g_it' = g_it + 1
    /\ pc' = "dijkstra_select"
    /\ UNCHANGED <<g, src, spt_set, u, visited, components, articulation,
                   test_graph, ret>>

\* dijkstras: lines 106-117 in a build that traps on signed overflow.
DijkstraTrap ==
    /\ pc = "dijkstra_relax"
    /\ \E v \in Vertices(g) :
         /\ reaches_sum(g, dist, spt_set, u, v)
         /\ overflows(dist[u], get_edge_weight(g, u, v))
    /\ pc' = "aborted"
    /\ UNCHANGED <<g, locals>>

\* dijkstras: line 119.
DijkstraDone ==
    /\ pc = "dijkstra_select"
    /\ g_it > num_vertices(g)
    /\ pc' = "dijkstra_done"
    /\ UNCHANGED <<g, locals>>

\* articulation_points(g): lines 126-127.
APStart ==
    /\ pc = "idle"
    /\ articulation' = <<>>
    /\ test_graph' = EmptyGraph
    /\ g_it' = 1
    /\ pc' = "ap_loop"
    /\ UNCHANGED <<g, src, dist, spt_set, u, visited, components, ret>>

\* articulation_points(g): one iteration of the loop of line 129.
APIter ==
    /\ pc = "ap_loop"
    /\ g_it <= num_vertices(g)
    /\ LET v == g.order[g_it]
           r == ap_reset_remove(g, v)
       IN  /\ g' = r.g
           /\ test_graph' = r.test_graph
           /\ articulation' = IF ~is_connected(r.test_graph)
                              THEN Append(articulation, v)
                              ELSE articulation
    /\ g_it' = g_it + 1
    /\ UNCHANGED <<pc, src, dist, spt_set, u, visited, components, ret>>

\* articulation_points(g): line 141.
APDone ==
    /\ pc = "ap_loop"
    /\ g_it > num_vertices(g)
    /\ pc' = "ap_done"
    /\ UNCHANGED <<g, locals>>

\* The call returns; its locals are destroyed.
Return ==
    /\ pc \in {"is_empty_done", "is_connected_done", "cc_done", "dijkstra_done", "ap_done"}
    /\ pc' = "idle"
    /\ src' = NoVertex
    /\ dist' = <<>>
    /\ spt_set' = {}
    /\ u' = NoVertex
    /\ g_it' = 1
    /\ visited' = {}
    /\ components' = <<>>
    /\ articulation' = <<>>
    /\ test_graph' = EmptyGraph
    /\ ret' = FALSE
    /\ UNCHANGED g

Next ==
    \/ IsEmpty
    \/ IsConnected
    \/ CCStart
    \/ CCIter
    \/ CCDone
    \/ DijkstraStart
    \/ DijkstraSelect
    \/ DijkstraRelax
    \/ DijkstraTrap
    \/ DijkstraDone
    \/ APStart
    \/ APIter
    \/ APDone
    \/ Return

Spec == Init /\ [][Next]_vars

(***************************************************************************)
(* Graph theory the claims refer to, defined without the code's traversal. *)
(***************************************************************************)
\* The walks from a to b that visit at most num_vertices(G) vertices.
Walks(G, a, b) ==
    UNION {{p \in [1..k -> Vertices(G)] :
               /\ p[1] = a
               /\ p[k] = b
               /\ \A i \in 1..(k - 1) : are_adjacent(G, p[i], p[i + 1])}
           : k \in 1..num_vertices(G)}

Connected(G, a, b) == Walks(G, a, b) # {}

\* Sums of weights may exceed the range of int: a number x is held as the
\* pair <<x \div 2^16, x % 2^16>>.
Big(x) == <<x \div 65536, x % 65536>>

BigAdd(x, y) ==
    <<x[1] + y[1] + ((x[2] + y[2]) \div 65536), (x[2] + y[2]) % 65536>>

BigLeq(x, y) == x[1] < y[1] \/ (x[1] = y[1] /\ x[2] <= y[2])

RECURSIVE WalkSum(_, _, _)
WalkSum(G, p, i) ==
    IF i >= Len(p) THEN Big(0)
    ELSE BigAdd(Big(get_edge_weight(G, p[i], p[i + 1])), WalkSum(G, p, i + 1))

\* The minimum sum of edge weights over the walks from a to b.
MinSum(G, a, b) ==
    LET sums == {WalkSum(G, p, 1) : p \in Walks(G, a, b)}
    IN  CHOOSE x \in sums : \A y \in sums : BigLeq(x, y)

\* The connected component of v, and the number of components.
ComponentOf(G, v) == {x \in Vertices(G) : Connected(G, v, x)}

NumComponents(G) == Cardinality({ComponentOf(G, v) : v \in Vertices(G)})

Degree(G, v) == Cardinality({n \in Vertices(G) : are_adjacent(G, v, n)})

\* The position of v in the native enumeration of G.
Pos(G, v) == CHOOSE i \in 1..Len(G.order) : G.order[i] = v

DijkstraPcs == {"dijkstra_select", "dijkstra_relax", "dijkstra_done", "aborted"}

(***************************************************************************)
(* C1: when dijkstras(g, src) returns, every vertex reachable from src     *)
(* has the minimum sum of edge weights over the paths from src, and every  *)
(* other vertex has the infinity sentinel.  The map holds values of type   *)
(* int, so the statement is required only of the vertices whose minimum    *)
(* sum is at most IntMax; a violation of this reading is a violation of    *)
(* the claim for every graph.                                              *)
(***************************************************************************)
C1_ShortestDistances ==
    pc = "dijkstra_done" =>
        \A t \in Vertices(g) :
            IF Connected(g, src, t)
            THEN BigLeq(MinSum(g, src, t), Big(IntMax)) =>
                    (dist[t] >= 0 /\ Big(dist[t]) = MinSum(g, src, t))
            ELSE dist[t] = IntMax

(***************************************************************************)
(* C2: when articulation_points(g) returns, v is in the list iff removing  *)
(* v from g increases the number of connected components.                  *)
(***************************************************************************)
C2_CutVertexIff ==
    pc = "ap_done" =>
        \A v \in Vertices(g) :
            (v \in Range(articulation)) <=>
                (NumComponents(remove_vertex(g, v)) > NumComponents(g))

(***************************************************************************)
(* C3: a vertex of degree 0 or 1 is never in the list returned by          *)
(* articulation_points(g).                                                 *)
(***************************************************************************)
C3_NoLeafOrIsolated ==
    pc = "ap_done" =>
        \A v \in Vertices(g) : Degree(g, v) <= 1 => v \notin Range(articulation)

(***************************************************************************)
(* C4: the vertex sets of the graphs returned by connected_components(g)   *)
(* are non-empty, pairwise disjoint, and their union is the vertex set of  *)
(* g.                                                                      *)
(***************************************************************************)
C4_Partition ==
    pc = "cc_done" =>
        /\ UNION {Vertices(components[i]) : i \in 1..Len(components)} = Vertices(g)
        /\ \A i, j \in 1..Len(components) :
              i # j => Vertices(components[i]) \cap Vertices(components[j]) = {}
        /\ \A i \in 1..Len(components) : Vertices(components[i]) # {}

C4_Witness ==
    /\ pc = "cc_done"
    /\ Len(components) >= 2
    /\ \E i \in 1..Len(components) : num_vertices(components[i]) >= 2

(***************************************************************************)
(* C5: is_connected(g) iff connected_components(g) returns exactly one     *)
(* component or g is empty; on the empty graph there are zero components.  *)
(***************************************************************************)
C5_ConnectedIffOneComponent ==
    pc = "cc_done" =>
        /\ is_connected(g) <=> (Len(components) = 1 \/ is_empty(g))
        /\ is_empty(g) => Len(components) = 0

C5_Witness ==
    /\ pc = "cc_done"
    /\ num_vertices(g) >= 3
    /\ is_connected(g)
    /\ Len(components) = 1

(***************************************************************************)
(* C6: every returned component has exactly the edges of g between its     *)
(* own vertices, with the weights of g.                                    *)
(***************************************************************************)
C6_InducedEdges ==
    pc = "cc_done" =>
        \A i \in 1..Len(components) :
            LET C == components[i]
            IN  /\ \A e \in DOMAIN C.wt : e[1] \in Vertices(C) /\ e[2] \in Vertices(C)
                /\ \A a, b \in Vertices(g) :
                      are_adjacent(C, a, b) <=>
                          (a \in Vertices(C) /\ b \in Vertices(C) /\ are_adjacent(g, a, b))
                /\ \A e \in DOMAIN C.wt : C.wt[e] = g.wt[e]

C6_Witness ==
    /\ pc = "cc_done"
    /\ Len(components) >= 2
    /\ \E i \in 1..Len(components) : \E e \in DOMAIN components[i].wt :
          components[i].wt[e] > 0

(***************************************************************************)
(* C7: on the zero-vertex graph no call faults or runs a loop iteration;   *)
(* is_empty and is_connected return true, connected_components and         *)
(* articulation_points return an empty list, dijkstras an empty map.       *)
(***************************************************************************)
C7_EmptyGraph ==
    is_empty(g) =>
        /\ pc \notin {"aborted", "dijkstra_relax"}
        /\ g_it = 1
        /\ u = NoVertex
        /\ pc = "is_empty_done" => ret = TRUE
        /\ pc = "is_connected_done" => ret = TRUE
        /\ pc = "cc_done" => components = <<>>
        /\ pc = "dijkstra_done" => DOMAIN dist = {}
        /\ pc = "ap_done" => articulation = <<>>

C7_Witness ==
    /\ is_empty(g)
    /\ pc = "dijkstra_done"
    /\ src \in Universe

(***************************************************************************)
(* C8: no step of any call changes the caller's graph, and after each test *)
(* of articulation_points the scratch copy is g without the tested vertex  *)
(* (and without its edges) only.                                           *)
(***************************************************************************)
C8_ScratchIsFreshCopy ==
    (pc = "ap_loop" /\ g_it > 1) =>
        /\ g_it - 1 <= num_vertices(g)
        /\ LET v == g.order[g_it - 1]
           IN  /\ Vertices(test_graph) = Vertices(g) \ {v}
               /\ \A a, b \in Vertices(g) \ {v} :
                     /\ are_adjacent(test_graph, a, b) <=> are_adjacent(g, a, b)
                     /\ are_adjacent(g, a, b) =>
                           get_edge_weight(test_graph, a, b) = get_edge_weight(g, a, b)

C8_GraphNotMutated == [][g' = g]_vars /\ []C8_ScratchIsFreshCopy

C8_Witness ==
    /\ pc = "ap_done"
    /\ num_vertices(g) >= 2
    /\ num_vertices(test_graph) = num_vertices(g) - 1
    /\ articulation # <<>>

(***************************************************************************)
(* C9: the vertices that were unprocessed at the selection, and those of   *)
(* them at the minimum distance.  The selected vertex u has just entered   *)
(* spt_set and dist is not yet relaxed.                                    *)
(***************************************************************************)
Unprocessed == Vertices(g) \ (spt_set \ {u})

Ties == {v \in Unprocessed : \A x \in Unprocessed : dist[v] <= dist[x]}

C10_SelectionInv ==
    /\ pc = "dijkstra_relax" =>
          /\ u \in Vertices(g)
          /\ spt_set \subseteq Vertices(g)
          /\ Cardinality(spt_set) = g_it
    /\ pc = "dijkstra_select" =>
          /\ spt_set \subseteq Vertices(g)
          /\ Cardinality(spt_set) = g_it - 1
    /\ pc = "dijkstra_done" =>
          /\ spt_set = Vertices(g)
          /\ g_it = num_vertices(g) + 1

C10_FinalisedKept ==
    (pc \in DijkstraPcs /\ pc' \in DijkstraPcs) =>
        \A v \in spt_set :
            v \in DOMAIN dist /\ v \in DOMAIN dist' /\ dist'[v] = dist[v]

C10_LoopProcessesEachOnce == []C10_SelectionInv /\ [][C10_FinalisedKept]_vars

C10_Witness ==
    /\ pc = "dijkstra_done"
    /\ num_vertices(g) >= 3
    /\ \E v \in Vertices(g) : ~Connected(g, src, v) /\ dist[v] = IntMax
    /\ \E v \in Vertices(g) : v # src /\ Connected(g, src, v)

====
